---- MODULE Spec2Model ----
(***************************************************************************)
(* NGSimLaneChangeScenario (carla_real_traffic_scenarios/ngsim/scenario.py) *)
(* as a state machine: the constructor, reset, step and close, over the    *)
(* fields of one scenario object and the two helpers it owns.              *)
(*                                                                         *)
(* Units.  Lengths are integers in decimetres (0.1 m).  Progress and       *)
(* reward are integers in units of 1/checkpoints_number (tenths), so the   *)
(* +1 bonus is checkpoints_number units.  Angles are integer degrees.      *)
(*                                                                         *)
(* Geometry.  The road is seen in cross-section: the start lane centerline *)
(* is at lateral position 0, the target lane centerline at LaneWidth, the  *)
(* lateral axis pointing in the commanded direction.  The lane graph is    *)
(* uniform along the segment (a lane that has a neighbour at reset has it  *)
(* in every frame).                                                        *)
(***************************************************************************)
EXTENDS Integers, Sequences, FiniteSets, TLC

\* ------------------------------------------------------------- bounds
LaneWidth == 6            \* distance between neighbouring centerlines
MaxAlignmentCounter == 11
MaxRunCounter == 21
MaxStride == 2 \* cap of the alignment counter (grows unboundedly)

\* -------------------------------------------------- program constants
CROSSTRACK_ERROR_TOLERANCE == 3     \* 0.3 m, in decimetres
YAW_DEG_ERRORS_TOLERANCE == 10
TARGET_LANE_ALIGNMENT_FRAMES == 10
checkpoints_number == 10
split_frac_num == 8                 \* split_frac = 0.8 = 8 / 10
split_frac_den == 10
hash_modulus == 100

None == "None"
NoDistance == -1          \* None in the two distance fields
Unset == "unset"          \* an attribute the object does not have yet

DatasetModes == {"TRAIN", "VALIDATION"}
RewardTypes == {"DENSE", "SPARSE"}
ChangeCommands == {"CHANGE_LANE_LEFT", "CHANGE_LANE_RIGHT"}

\* LaneChangeInstant: hash_num stands for int(sha1(str(instant)).hexdigest(), 16)
Lci(h, c) == [hash_num |-> h, chauffeur_command |-> c]
\* self._lane_change before the first reset (no attribute) and after close (None)
UnsetLci == Lci(0, Unset)
NoneLci == Lci(0, None)
DatasetInstants ==
    << Lci(179, "CHANGE_LANE_LEFT"), Lci(80, "CHANGE_LANE_RIGHT"),
       Lci(12300, "CHANGE_LANE_RIGHT"), Lci(99, "CHANGE_LANE_LEFT") >>

\* the recordings (lists of lane change instants) a scenario is built on
Recordings ==
    { <<>>, << DatasetInstants[1], DatasetInstants[2], DatasetInstants[3] >> }

RECURSIVE SubSeqsOf(_)
SubSeqsOf(s) ==
    IF s = <<>> THEN { <<>> }
    ELSE LET rest == SubSeqsOf(Tail(s))
         IN  rest \cup { <<Head(s)>> \o r : r \in rest }
AllRecordings == SubSeqsOf(DatasetInstants)

\* ---------------------------------------------------------- partition
determine_split_inclusive(lane_change_instant) ==
    IF (lane_change_instant.hash_num % hash_modulus) * split_frac_den
          <= split_frac_num * hash_modulus
    THEN "TRAIN" ELSE "VALIDATION"

\* (hash_num % 100) / 100 < 0.8, compared as fractions
determine_split(lane_change_instant) ==
    IF (lane_change_instant.hash_num % hash_modulus) * split_frac_den
          < split_frac_num * hash_modulus
    THEN "TRAIN" ELSE "VALIDATION"

RECURSIVE Filter(_, _)
Filter(s, mode) ==
    IF s = <<>> THEN <<>>
    ELSE IF determine_split(Head(s)) = mode
         THEN <<Head(s)>> \o Filter(Tail(s), mode)
         ELSE Filter(Tail(s), mode)

\* ----------------------------------------------------------- geometry
Abs(a) == IF a < 0 THEN -a ELSE a

\* int(a / b) for b > 0: truncation towards zero
IntOfQuotient_floor(a, b) == a \div b

IntOfQuotient(a, b) == IF a >= 0 THEN a \div b ELSE -((-a) \div b)

\* lateral positions the ego vehicle is observed at.  In full, for the progress
\* scorer: the centre of the lane before the start lane, the far edge, the
\* centre and an off-centre point of the start lane, the near edge, two points
\* around the centre and a point beyond the centre of the target lane, the
\* centre of the lane beyond it
AllPositions ==
    { -LaneWidth, -(LaneWidth \div 2), 0, CROSSTRACK_ERROR_TOLERANCE - 1,
      LaneWidth \div 2 + (LaneWidth % 2), LaneWidth - 1, LaneWidth,
      LaneWidth + 2, 2 * LaneWidth }
\* the far edge and the centre of the start lane, the near edge and the centre
\* of the target lane, the centre of the lane beyond it
Positions ==
    { -(LaneWidth \div 2), 0, LaneWidth \div 2 + (LaneWidth % 2), LaneWidth,
      2 * LaneWidth }

\* world_map.get_waypoint(location).lane_id
lane_id(x) ==
    IF 2 * x >= -LaneWidth /\ 2 * x < LaneWidth THEN "start"
    ELSE IF 2 * x >= LaneWidth /\ 2 * x < 3 * LaneWidth THEN "target"
    ELSE "other"

\* lateral position of the waypoint the location is projected to
waypoint_location(x) ==
    CASE lane_id(x) = "start" -> 0
      [] lane_id(x) = "target" -> LaneWidth
      [] OTHER -> IF x < 0 THEN -LaneWidth ELSE 2 * LaneWidth

\* ego yaw minus waypoint yaw, degrees
AllYawDiffs == {-15, 9, 10, 345}
YawDiffs == {0, 10}

\* longitudinal part of the first total distance
AllSkews == {0, 1}
Skews == {0}

\* utils.geometry.normalize_angle, in degrees: wraps into (-180, 180]
normalize_angle(d) ==
    LET m == d % 360 IN IF m > 180 THEN m - 360 ELSE m

\* -------------------------------------------------------------- state
VARIABLES
    recording_instants,        \* NGSimRecording.lane_change_instants of the dataset
    watch,                     \* the history fields of `last` that are recorded
    ngsim_recording,           \* self._ngsim_recording: Unset, "recording" or None
    ngsim_vehicles_in_carla,   \* self._ngsim_vehicles_in_carla: None, "live", "closed"
    early_stop_monitor,        \* self._early_stop_monitor: None, "live", "closed"
    dataset_mode,
    reward_type,
    lane_change_instants,      \* self._lane_change_instants
    lane_change,               \* self._lane_change: UnsetLci, NoneLci or an instant
    target_alignment_counter,
    previous_chauffeur_command,
    previous_progress,         \* tenths
    total_distance_m,          \* decimetres, or NoDistance
    checkpoints_distance_m,    \* numerator n of n / checkpoints_number dm, or NoDistance
    start_lane_waypoint,       \* Unset or a lane id
    target_lane_waypoint,      \* Unset, None (no neighbour) or a lane id
    live_monitors,             \* EarlyStopMonitor instances constructed and not closed
    live_vehicles,             \* RealTrafficVehiclesInCarla instances likewise
    double_close,              \* some helper instance had close() called twice
    last                       \* the last call: its inputs, outcome and result

vars ==
    << recording_instants, watch, ngsim_recording, ngsim_vehicles_in_carla,
       early_stop_monitor, dataset_mode, reward_type, lane_change_instants,
       lane_change, target_alignment_counter, previous_chauffeur_command,
       previous_progress, total_distance_m, checkpoints_distance_m,
       start_lane_waypoint, target_lane_waypoint, live_monitors, live_vehicles,
       double_close, last >>

object == << ngsim_recording, dataset_mode, reward_type, lane_change_instants >>
helpers ==
    << ngsim_vehicles_in_carla, early_stop_monitor, live_monitors, live_vehicles,
       double_close >>
episode ==
    << lane_change, target_alignment_counter, previous_chauffeur_command,
       previous_progress, total_distance_m, checkpoints_distance_m,
       start_lane_waypoint, target_lane_waypoint >>

\* what a call that returns no step result leaves in `last`.  The last six
\* fields are history, not results: stale (reset: every episode attribute held a
\* value of an earlier episode), yaw_error (the frame's normalized heading
\* difference), target_run (the frames in a row, up to this one, on the target
\* lane with heading and crosstrack within tolerance, in an episode no frame
\* of which was done; -1 once a frame was done), ideal (every frame since reset
\* returned, on the start or target lane, never moving back, by MaxStride
\* at most from the frame before or from the start centerline, never beyond
\* the target centerline), progress_sum (the progress changes returned since reset),
\* overshoot ("passed" once passed_target_centerline held in a frame of the
\* episode, "ended" once a frame of the episode was done)
Call(op, raised) ==
    [ op |-> op, raised |-> raised, repeated |-> (last.op = op),
      location |-> 0, no_lane |-> FALSE, stop |-> FALSE, monitor_called |-> FALSE,
      aligned |-> FALSE, on_start_lane |-> FALSE, on_target_lane |-> FALSE,
      succeeded |-> FALSE, early_stop |-> FALSE, progress_change |-> 0,
      chauffeur_command |-> None, reward |-> 0, done |-> FALSE,
      stale |-> FALSE, yaw_error |-> 0, target_run |-> 0, ideal |-> FALSE,
      progress_sum |-> 0, overshoot |-> "none" ]

InitWith(recordings, watched) ==
    /\ recording_instants \in recordings
    /\ watch = watched
    /\ ngsim_recording = Unset
    /\ ngsim_vehicles_in_carla = None
    /\ early_stop_monitor = None
    /\ dataset_mode = Unset
    /\ reward_type = Unset
    /\ lane_change_instants = Unset
    /\ lane_change = UnsetLci
    \* the next five are attributes only reset creates; step raises at line 107
    \* before it could read them, so the numbers here are never read
    /\ target_alignment_counter = 0
    /\ previous_chauffeur_command = Unset
    /\ previous_progress = 0
    /\ total_distance_m = NoDistance
    /\ checkpoints_distance_m = NoDistance
    /\ start_lane_waypoint = Unset
    /\ target_lane_waypoint = Unset
    /\ live_monitors = 0
    /\ live_vehicles = 0
    /\ double_close = FALSE
    /\ last = [ op |-> "none", raised |-> "none", repeated |-> FALSE,
                location |-> 0, no_lane |-> FALSE, stop |-> FALSE,
                monitor_called |-> FALSE, aligned |-> FALSE,
                on_start_lane |-> FALSE, on_target_lane |-> FALSE,
                succeeded |-> FALSE, early_stop |-> FALSE, progress_change |-> 0,
                chauffeur_command |-> None, reward |-> 0, done |-> FALSE,
                stale |-> FALSE, yaw_error |-> 0, target_run |-> 0,
                ideal |-> FALSE, progress_sum |-> 0, overshoot |-> "none" ]

Init == InitWith(Recordings, {})

constructed == ngsim_recording # Unset

\* a closed object that holds no helper: it is dropped and another may be built
discarded ==
    ngsim_recording = None /\ live_monitors = 0 /\ live_vehicles = 0

\* ------------------------------------------------------------ __init__
\* a fresh object: the attributes only reset creates are as in Init
NGSimLaneChangeScenario(mode, rtype) ==
    /\ ~constructed \/ discarded
    /\ ngsim_recording' = "recording"
    /\ ngsim_vehicles_in_carla' = None
    /\ dataset_mode' = mode
    /\ early_stop_monitor' = None
    /\ lane_change_instants' = Filter(recording_instants, mode)
    /\ reward_type' = rtype
    /\ lane_change' = UnsetLci
    /\ target_alignment_counter' = 0
    /\ previous_chauffeur_command' = Unset
    /\ previous_progress' = 0
    /\ total_distance_m' = NoDistance
    /\ checkpoints_distance_m' = NoDistance
    /\ start_lane_waypoint' = Unset
    /\ target_lane_waypoint' = Unset
    /\ last' = Call("init", "none")
    /\ UNCHANGED << recording_instants, watch, live_monitors, live_vehicles,
                    double_close >>

\* ---------------------------------------------------------- helpers
\* `if helper: helper.close()`: the number of live instances afterwards
close_held_forgotten(ref, live) == live

close_held(ref, live) == IF ref = "live" THEN live - 1 ELSE live

\* close() called on an instance that is closed already
closes_again(ref) == ref = "closed"

\* the reference the field holds after close(): `self._x = None`
ref_after_close_kept(ref) == IF ref = "live" THEN "closed" ELSE ref

ref_after_close(ref) == None

\* --------------------------------------------------------------- reset
\* the values lines 78-82 assign
counter_at_reset_kept == target_alignment_counter

counter_at_reset == 0
progress_at_reset == 0
distance_at_reset == NoDistance

\* every attribute lines 78-82 assign differs from what reset will assign
stale_episode(choice) ==
    /\ target_alignment_counter # counter_at_reset
    /\ previous_progress # progress_at_reset
    /\ total_distance_m # distance_at_reset
    /\ checkpoints_distance_m # distance_at_reset
    /\ previous_chauffeur_command # lane_change_instants[choice].chauffeur_command

reset(choice, target_exists) ==
    /\ constructed
    /\ live_vehicles' = close_held(ngsim_vehicles_in_carla, live_vehicles) + 1
    /\ ngsim_vehicles_in_carla' = "live"
    /\ live_monitors' = close_held(early_stop_monitor, live_monitors) + 1
    /\ early_stop_monitor' = "live"
    /\ double_close' = (double_close \/ closes_again(ngsim_vehicles_in_carla)
                                     \/ closes_again(early_stop_monitor))
    /\ IF lane_change_instants = <<>>
       THEN \* random.choice raises on an empty list
            /\ last' = Call("reset", "IndexError")
            /\ UNCHANGED episode
       ELSE /\ choice \in 1 .. Len(lane_change_instants)
            /\ lane_change' = lane_change_instants[choice]
            /\ target_alignment_counter' = counter_at_reset
            /\ previous_chauffeur_command' =
                  lane_change_instants[choice].chauffeur_command
            /\ previous_progress' = progress_at_reset
            /\ total_distance_m' = distance_at_reset
            /\ checkpoints_distance_m' = distance_at_reset
            /\ IF ngsim_recording = None
               THEN /\ last' = Call("reset", "AttributeError")
                    /\ UNCHANGED << start_lane_waypoint, target_lane_waypoint >>
               ELSE /\ start_lane_waypoint' = "start"
                    /\ target_lane_waypoint' =
                          IF target_exists THEN "target" ELSE None
                    /\ last' = [Call("reset", "none") EXCEPT
                                  !.stale = stale_episode(choice),
                                  !.ideal = "ideal" \in watch]
    /\ UNCHANGED << recording_instants, watch, object >>

\* --------------------------------------------------------------- close
close ==
    /\ constructed
    /\ live_monitors' = close_held(early_stop_monitor, live_monitors)
    /\ early_stop_monitor' = ref_after_close(early_stop_monitor)
    /\ live_vehicles' = close_held(ngsim_vehicles_in_carla, live_vehicles)
    /\ ngsim_vehicles_in_carla' = ref_after_close(ngsim_vehicles_in_carla)
    /\ double_close' = (double_close \/ closes_again(ngsim_vehicles_in_carla)
                                     \/ closes_again(early_stop_monitor))
    /\ lane_change_instants' = <<>>
    /\ lane_change' = NoneLci
    /\ ngsim_recording' = None
    /\ last' = Call("close", "none")
    /\ UNCHANGED << recording_instants, watch, dataset_mode, reward_type,
                    target_alignment_counter, previous_chauffeur_command,
                    previous_progress, total_distance_m, checkpoints_distance_m,
                    start_lane_waypoint, target_lane_waypoint >>

\* ------------------------------------------------------------- step
crosstrack_error(x) == Abs(x - waypoint_location(x))
yaw_error(yaw) == normalize_angle(yaw)

aligned_with_target_lane(x, yaw) ==
    /\ crosstrack_error(x) < CROSSTRACK_ERROR_TOLERANCE
    /\ yaw_error(yaw) < YAW_DEG_ERRORS_TOLERANCE

\* _is_lane_aligned: the counter after the frame; it returns counter = 10
is_lane_aligned_counter(counter, aligned) ==
    IF aligned THEN counter + 1 ELSE 0

is_lane_aligned(counter) == counter = TARGET_LANE_ALIGNMENT_FRAMES

\* on_target_lane & self._is_lane_aligned(...): both operands are evaluated
scenario_finished_with_success(on_target_lane, counter) ==
    on_target_lane /\ is_lane_aligned(counter)

early_stop_without_precedence(success, stop, not_on_expected_lanes) ==
    stop \/ not_on_expected_lanes

early_stop_of(success, stop, not_on_expected_lanes) ==
    ~success /\ (stop \/ not_on_expected_lanes)

\* current_location.distance(self._target_lane_waypoint.transform.location):
\* the target waypoint of reset lies `skew` behind the vehicle's cross-section
first_total_distance(x, skew) == Abs(LaneWidth - x) + skew

\* lines 174-177: the distances are measured when they are None
total_after_query_measured(total, x, skew) == first_total_distance(x, skew)

total_after_query(total, x, skew) ==
    IF total = NoDistance THEN first_total_distance(x, skew) ELSE total

\* the checkpoint distance is kept times checkpoints_number, as a whole number
checkpoints_after_query(total, checkpoints_distance, x, skew) ==
    IF total = NoDistance THEN first_total_distance(x, skew)
    ELSE checkpoints_distance

distance_from_start(x) == Abs(x)
distance_from_target(x) == Abs(LaneWidth - x)
distance_traveled_m(total, x) == total - distance_from_target(x)

\* lines 185-186: int(distance_traveled_m / checkpoints_distance_m)
checkpoints_passed_number(total, checkpoints_distance, x) ==
    IntOfQuotient(distance_traveled_m(total, x) * checkpoints_number,
                  checkpoints_distance)

passed_target_centerline(total, x) ==
    /\ distance_from_start(x) > total
    /\ distance_from_start(x) > distance_from_target(x)

\* _calc_progress_change: the progress (tenths) at lateral position x
calc_progress_undivided(total, checkpoints_distance, x) ==
    IF passed_target_centerline(total, x) THEN 0
    ELSE checkpoints_passed_number(total, checkpoints_distance, x)
         * checkpoints_number

calc_progress_unclamped(total, checkpoints_distance, x) ==
    checkpoints_passed_number(total, checkpoints_distance, x)

calc_progress(total, checkpoints_distance, x) ==
    IF passed_target_centerline(total, x) THEN 0
    ELSE checkpoints_passed_number(total, checkpoints_distance, x)

\* _get_progress_change: [change, progress] for a frame on lane `lane`
get_progress_change_always(lane, total, checkpoints_distance, previous, x) ==
    [ change |-> calc_progress(total, checkpoints_distance, x) - previous,
      progress |-> calc_progress(total, checkpoints_distance, x) ]

get_progress_change(lane, total, checkpoints_distance, previous, x) ==
    IF lane \in {"start", "target"}
    THEN [ change |-> calc_progress(total, checkpoints_distance, x) - previous,
           progress |-> calc_progress(total, checkpoints_distance, x) ]
    ELSE [ change |-> 0, progress |-> previous ]

reward_clipped(rtype, progress_change, success, early) ==
    LET r == (IF rtype = "DENSE" THEN 1 ELSE 0) * progress_change
             + (IF success THEN 1 ELSE 0) * checkpoints_number
             + (IF early THEN 1 ELSE 0) * (-checkpoints_number)
    IN  IF r > checkpoints_number THEN checkpoints_number
        ELSE IF r < -checkpoints_number THEN -checkpoints_number ELSE r

\* reward, in tenths
reward_of(rtype, progress_change, success, early) ==
    (IF rtype = "DENSE" THEN 1 ELSE 0) * progress_change
    + (IF success THEN 1 ELSE 0) * checkpoints_number
    + (IF early THEN 1 ELSE 0) * (-checkpoints_number)

\* the alignment counter is followed up to a bound
counter_bound ==
    IF "run" \in watch THEN MaxRunCounter ELSE MaxAlignmentCounter

\* no_lane: get_waypoint finds no lane at the vehicle's location
step(location, no_lane, yaw, stop, skew) ==
    /\ constructed
    \* inputs that are not read are fixed: nothing but the lookup when it finds
    \* no lane, no skew once the total distance is set
    /\ no_lane => (location = 0 /\ yaw = 0 /\ ~stop /\ skew = 0)
    /\ total_distance_m # NoDistance => skew = 0
    /\ IF \/ ngsim_recording = None
          \/ ngsim_vehicles_in_carla = None
          \/ lane_change \in {UnsetLci, NoneLci}
          \/ start_lane_waypoint = Unset
       THEN \* lines 105-112: an attribute that is None or missing
            /\ last' = Call("step", "AttributeError")
            /\ UNCHANGED << episode >>
       ELSE IF no_lane \/ target_lane_waypoint = None
       THEN \* lines 112-113: waypoint.lane_id of no waypoint
            /\ last' = [Call("step", "AttributeError") EXCEPT
                          !.no_lane = no_lane,
                          !.progress_sum = last.progress_sum,
                          !.overshoot = last.overshoot]
            /\ UNCHANGED << episode >>
       ELSE
         LET lane == lane_id(location)
             on_start_lane == lane = start_lane_waypoint
             on_target_lane == lane = target_lane_waypoint
             not_on_expected_lanes == ~(on_start_lane \/ on_target_lane)
             chauffeur_command ==
                 IF on_start_lane THEN lane_change.chauffeur_command
                 ELSE "LANE_FOLLOW"
             aligned == aligned_with_target_lane(location, yaw)
             within_tolerance ==
                 /\ crosstrack_error(location) < CROSSTRACK_ERROR_TOLERANCE
                 /\ Abs(yaw_error(yaw)) < YAW_DEG_ERRORS_TOLERANCE
             forward == /\ last.ideal
                        /\ on_start_lane \/ on_target_lane
                        /\ last.location <= location
                        /\ location <= last.location + MaxStride
                        /\ location <= LaneWidth
             counter == is_lane_aligned_counter(target_alignment_counter, aligned)
             success == scenario_finished_with_success(on_target_lane, counter)
             early == early_stop_of(success, stop, not_on_expected_lanes)
             done == success \/ early
             total == total_after_query(total_distance_m, location, skew)
             checkpoints == checkpoints_after_query(total_distance_m,
                                checkpoints_distance_m, location, skew)
             divides_by_zero == checkpoints = 0 /\ lane \in {"start", "target"}
             pc == get_progress_change(lane, total, checkpoints,
                                       previous_progress, location)
             frame == [ Call("step", "none") EXCEPT
                          !.location = location,
                          !.stop = stop,
                          !.monitor_called = ~success,
                          !.aligned = aligned,
                          !.on_start_lane = on_start_lane,
                          !.on_target_lane = on_target_lane,
                          !.succeeded = success,
                          !.early_stop = early,
                          !.yaw_error = IF "yaw" \in watch
                                        THEN yaw_error(yaw) ELSE 0,
                          !.target_run =
                              IF "run" \notin watch THEN 0
                              ELSE IF last.target_run = -1 \/ done THEN -1
                              ELSE IF on_target_lane /\ within_tolerance
                              THEN last.target_run + 1 ELSE 0,
                          !.progress_sum = last.progress_sum,
                          !.overshoot =
                              IF "overshoot" \notin watch THEN "none"
                              ELSE IF last.overshoot = "ended" \/ done
                              THEN "ended"
                              ELSE IF \/ last.overshoot = "passed"
                                      \/ /\ ~not_on_expected_lanes
                                         /\ passed_target_centerline(total,
                                                                     location)
                              THEN "passed" ELSE "none" ]
         IN  /\ aligned => target_alignment_counter < counter_bound
             /\ target_alignment_counter' = counter
             /\ total_distance_m' = total
             /\ checkpoints_distance_m' = checkpoints
             /\ IF divides_by_zero
                THEN \* line 186: float division by zero
                     /\ last' = [frame EXCEPT !.raised = "ZeroDivisionError"]
                     /\ UNCHANGED << previous_progress, previous_chauffeur_command >>
                ELSE /\ previous_progress' = pc.progress
                     /\ previous_chauffeur_command' = chauffeur_command
                     /\ last' = [frame EXCEPT
                                   !.progress_change = pc.change,
                                   !.ideal = forward,
                                   !.progress_sum =
                                       IF "ideal" \in watch
                                       THEN last.progress_sum + pc.change
                                       ELSE 0,
                                   !.chauffeur_command = chauffeur_command,
                                   !.reward = reward_of(reward_type, pc.change,
                                                        success, early),
                                   !.done = done]
             /\ UNCHANGED << lane_change, start_lane_waypoint, target_lane_waypoint >>
    /\ UNCHANGED << recording_instants, watch, object, helpers >>

\* ------------------------------------------------------ specification
Next ==
    \/ \E mode \in DatasetModes, rtype \in RewardTypes :
          NGSimLaneChangeScenario(mode, rtype)
    \/ \E choice \in 1 .. Len(DatasetInstants), target_exists \in BOOLEAN :
          reset(choice, target_exists)
    \/ \E location \in Positions, no_lane \in BOOLEAN, yaw \in YawDiffs,
          stop \in BOOLEAN, skew \in Skews :
          step(location, no_lane, yaw, stop, skew)
    \/ close

Spec == Init /\ [][Next]_vars

\* the partition alone: every recording over the dataset, built and closed
InitSplit == InitWith(AllRecordings, {})
NextSplit ==
    \/ \E mode \in DatasetModes, rtype \in RewardTypes :
          NGSimLaneChangeScenario(mode, rtype)
    \/ close
SpecSplit == InitSplit /\ [][NextSplit]_vars

\* the progress scorer over the geometry in full: frames whose heading is
\* out of tolerance, so that the alignment counter stays at 0
InitProgress == InitWith(Recordings, {"ideal", "overshoot"})
NextProgress ==
    \/ \E mode \in DatasetModes : NGSimLaneChangeScenario(mode, "DENSE")
    \/ \E choice \in 1 .. Len(DatasetInstants) : reset(choice, TRUE)
    \/ \E location \in AllPositions, skew \in AllSkews :
          step(location, FALSE, YAW_DEG_ERRORS_TOLERANCE, FALSE, skew)
    \/ close
SpecProgress == InitProgress /\ [][NextProgress]_vars

\* the alignment counter over headings on both sides of the lane's, at the
\* centerlines of the start and target lane and between them
AlignPositions == {0, LaneWidth \div 2 + (LaneWidth % 2), LaneWidth}
InitAlign == InitWith(Recordings, {"run", "yaw"})
NextAlign ==
    \/ \E mode \in DatasetModes : NGSimLaneChangeScenario(mode, "SPARSE")
    \/ \E choice \in 1 .. Len(DatasetInstants) : reset(choice, TRUE)
    \/ \E location \in AlignPositions, yaw \in AllYawDiffs, stop \in BOOLEAN :
          step(location, FALSE, yaw, stop, 0)
    \/ close
SpecAlign == InitAlign /\ [][NextAlign]_vars

\* ============================================================== claims
returned == last.op = "step" /\ last.raised = "none"
dense == IF reward_type = "DENSE" THEN 1 ELSE 0
bonus == checkpoints_number          \* +1, in tenths

\* C1: in every step that returns, succeeded and early_stop are not both
\* true; a frame on the target lane in which the alignment completes (the
\* counter reaches 10) while the monitor signals stop reports succeeded,
\* no early stop, done, and a reward with the +1 bonus and without the -1.
C1_SuccessTakesPrecedence ==
    returned =>
      /\ ~(last.succeeded /\ last.early_stop)
      /\ ( /\ last.on_target_lane
           /\ target_alignment_counter = TARGET_LANE_ALIGNMENT_FRAMES
           /\ last.stop )
         => /\ last.succeeded
            /\ ~last.early_stop
            /\ last.done
            /\ last.reward = dense * last.progress_change + bonus

C1_Witness ==
    /\ returned
    /\ last.on_target_lane
    /\ target_alignment_counter = TARGET_LANE_ALIGNMENT_FRAMES
    /\ last.stop
    /\ last.succeeded

\* C2: step reports success exactly when the 10th consecutive aligned frame
\* is processed (the counter of consecutive aligned frames reaches 10).
C2_SuccessExactlyOnTenthAlignedFrame ==
    returned =>
      (last.succeeded <=>
         (last.aligned /\ target_alignment_counter = TARGET_LANE_ALIGNMENT_FRAMES))

\* C3: a step in which the agent is not on the target lane leaves the
\* alignment counter unchanged.
C3_CounterUntouchedOffTargetLane ==
    [][ (last'.op = "step" /\ last'.raised = "none" /\ ~last'.on_target_lane)
        => target_alignment_counter' = target_alignment_counter ]_vars

\* C4: a step that finds the agent on a lane that is neither the start lane
\* nor the target lane reports early_stop and done whatever the monitor
\* returns, a progress delta of 0 and a reward of exactly -1 in both reward
\* modes, and leaves previous_progress unchanged.
C4_OffExpectedLanes ==
    /\ [](( returned /\ ~last.on_start_lane /\ ~last.on_target_lane )
          => /\ last.early_stop
             /\ last.done
             /\ ~last.succeeded
             /\ last.progress_change = 0
             /\ last.reward = -bonus)
    /\ [][ ( /\ last'.op = "step" /\ last'.raised = "none"
             /\ ~last'.on_start_lane /\ ~last'.on_target_lane )
           => previous_progress' = previous_progress ]_vars

\* the monitor said "go on", the mode is dense and progress had been made
C4_Witness ==
    /\ returned
    /\ ~last.on_start_lane /\ ~last.on_target_lane
    /\ ~last.stop
    /\ reward_type = "DENSE"
    /\ previous_progress # 0

\* C5: a step that follows a step that returned done, with no reset between
\* them, raises.
C5_StepAfterDoneRaises ==
    [][ ( /\ last.op = "step" /\ last.raised = "none" /\ last.done
          /\ last'.op = "step" )
        => last'.raised # "none" ]_vars

\* C6: construction on an empty list of instants for the mode fails.
C6_EmptyPartitionFailsConstruction ==
    (last.op = "init" /\ lane_change_instants = <<>>) => last.raised # "none"

\* C7: at most one early-stop monitor and one materializer are live at any
\* time, the live one is the one the scenario holds, and after close none is.
C7_OneHelperEach ==
    /\ live_monitors = (IF early_stop_monitor = "live" THEN 1 ELSE 0)
    /\ live_vehicles = (IF ngsim_vehicles_in_carla = "live" THEN 1 ELSE 0)
    /\ (last.op = "close" => (live_monitors = 0 /\ live_vehicles = 0))

\* a reset that replaced the helpers of the reset before it
C7_Witness ==
    /\ last.op = "reset" /\ last.repeated /\ last.raised = "none"
    /\ live_monitors = 1 /\ live_vehicles = 1

\* C8: close never raises and closes no helper twice, and a close that
\* follows a close changes no field.
C8_CloseIdempotent ==
    /\ [](last.op = "close" => (last.raised = "none" /\ ~double_close))
    /\ [][ (last.op = "close" /\ last'.op = "close")
           => UNCHANGED << recording_instants, watch, object, helpers, episode >> ]_vars

\* a second close in a row, after an episode had been reset
C8_Witness ==
    /\ last.op = "close" /\ last.repeated
    /\ lane_change = NoneLci
    /\ start_lane_waypoint # Unset

\* C9: the reward of every step that returns is
\* (progress delta if DENSE else 0) + (1 if succeeded) - (1 if early stop),
\* unclipped; in SPARSE mode it is -1, 0 or +1.
C9_RewardComposition ==
    returned =>
      /\ last.reward =
           (IF reward_type = "DENSE" THEN last.progress_change ELSE 0)
           + (IF last.succeeded THEN bonus ELSE 0)
           + (IF last.early_stop THEN -bonus ELSE 0)
      /\ reward_type = "SPARSE" => last.reward \in {-bonus, 0, bonus}

\* a dense reward beyond +1: progress and the success bonus in one frame
C9_Witness ==
    /\ returned
    /\ reward_type = "DENSE"
    /\ last.succeeded
    /\ last.reward > bonus

\* the split as the claim states it
Range(s) == { s[i] : i \in 1 .. Len(s) }
IsTrain(lci) == lci.hash_num % 100 < 80
Selected(mode) ==
    SelectSeq(recording_instants,
              LAMBDA lci : IF mode = "TRAIN" THEN IsTrain(lci) ELSE ~IsTrain(lci))

\* C10: the list a construction selects holds exactly the instants of the
\* recording whose hash mod 100 is below 80 (TRAIN) or not below 80
\* (VALIDATION), in the recording's order; the two lists are disjoint and
\* together hold every instant.
C10_PartitionIsHashSplit ==
    last.op = "init" =>
      /\ lane_change_instants = Selected(dataset_mode)
      /\ Range(Filter(recording_instants, "TRAIN"))
           \cap Range(Filter(recording_instants, "VALIDATION")) = {}
      /\ Range(Filter(recording_instants, "TRAIN"))
           \cup Range(Filter(recording_instants, "VALIDATION"))
           = Range(recording_instants)
      /\ \A lci \in Range(recording_instants) :
           determine_split(lci) = (IF IsTrain(lci) THEN "TRAIN" ELSE "VALIDATION")

\* a construction on a recording with several instants of both partitions
C10_Witness ==
    /\ last.op = "init"
    /\ Len(lane_change_instants) > 1
    /\ Len(recording_instants) - Len(lane_change_instants) > 1

\* the episode reset began is running: reset returned and close was not called
in_episode ==
    /\ ngsim_recording = "recording"
    /\ ngsim_vehicles_in_carla = "live"
    /\ start_lane_waypoint = "start"

\* C11: a step of a running episode whose lane lookup yields no lane (the
\* vehicle is off the mapped road, or the start lane has no neighbour in the
\* commanded direction) does not raise: it returns the early-stop result,
\* neither on the start nor on the target lane, done, reward with the -1.
C11_MissingLaneStopsEarly ==
    (last.op = "step" /\ in_episode
       /\ (last.no_lane \/ target_lane_waypoint = None)) =>
      /\ last.raised = "none"
      /\ ~last.on_start_lane /\ ~last.on_target_lane
      /\ last.early_stop /\ last.done
      /\ last.reward = dense * last.progress_change - bonus

full_progress == checkpoints_number          \* progress 1.0, in tenths
on_expected_lane == last.on_start_lane \/ last.on_target_lane
\* the progress before the frame in `last`
progress_before == previous_progress - last.progress_change

\* C12 as stated: the progress delta of every call of the progress scorer lies
\* in [-1, 1], for every sequence of positions on the start and target lanes.
C12_ProgressDeltaWithinOne ==
    returned =>
      /\ last.progress_change <= full_progress
      /\ last.progress_change >= -full_progress

\* C12, amended: the progress is at most 1 after every call, and the progress
\* delta lies in [-1, 1] in every call before and after which the progress is
\* not negative (it is negative where the vehicle is farther from the target
\* centerline than the total distance of the episode).
C12_ProgressDeltaBounded ==
    returned =>
      /\ previous_progress <= full_progress
      /\ (progress_before >= 0 /\ previous_progress >= 0) =>
            /\ last.progress_change <= full_progress
            /\ last.progress_change >= -full_progress

\* a frame that takes the progress from 0 to 1 in one call
C12_Witness ==
    /\ returned /\ on_expected_lane
    /\ progress_before = 0
    /\ last.progress_change = full_progress

\* passed_target_centerline held in the frame in `last`
passed_now ==
    /\ returned /\ on_expected_lane
    /\ passed_target_centerline(total_distance_m, last.location)

\* C13 as stated: once passed_target_centerline has become true in an episode,
\* the progress delta is 0 in every later frame until the episode ends.
C13_OvershootLatched ==
    [][ (last.overshoot = "passed" /\ last'.op = "step" /\ last'.raised = "none")
           => last'.progress_change = 0 ]_vars

\* C13, amended: in every frame in which passed_target_centerline holds the
\* progress is 0 and the delta is minus the progress before; the delta is 0 in
\* a frame in which it holds when it held in the frame before.
C13_OvershootZeroesProgress ==
    [][ /\ passed_now' => /\ previous_progress' = 0
                          /\ last'.progress_change = - previous_progress
        /\ (passed_now /\ passed_now') => last'.progress_change = 0 ]_vars

\* a second frame in a row beyond the target centerline, farther from the
\* start than the total distance
C13_Witness ==
    /\ passed_now /\ last.repeated
    /\ last.overshoot = "passed"
    /\ last.location > LaneWidth
    /\ last.progress_change = 0

one_checkpoint == 1                          \* progress 0.1, in tenths

\* C14: under ideal forward motion (from the start centerline to the target
\* centerline, never back, never off the two lanes, never beyond the target
\* centerline) the progress deltas returned since reset sum to 1.0, within one
\* checkpoint, when the vehicle is on the target centerline.
C14_ProgressSumsToOne ==
    (returned /\ last.ideal /\ last.location = LaneWidth) =>
      /\ last.progress_sum >= full_progress - one_checkpoint
      /\ last.progress_sum <= full_progress + one_checkpoint

\* the call in `last` reached the progress scorer
queried == last.op = "step" /\ last.raised \in {"none", "ZeroDivisionError"}

\* C15: the total distance and the checkpoint distance are set by the first
\* progress query of an episode, from the vehicle's location in that frame,
\* and no later call changes them; only reset (or a new object) unsets them.
C15_DistancesFixedInEpisode ==
    [][ /\ (total_distance_m # NoDistance /\ last'.op \notin {"reset", "init"})
            => /\ total_distance_m' = total_distance_m
               /\ checkpoints_distance_m' = checkpoints_distance_m
        /\ (total_distance_m = NoDistance /\ queried')
            => /\ total_distance_m' \in
                     { first_total_distance(last'.location, skew) :
                          skew \in AllSkews }
               /\ checkpoints_distance_m' = total_distance_m'
        /\ (total_distance_m = NoDistance /\ ~queried')
            => /\ total_distance_m' = NoDistance
               /\ checkpoints_distance_m' = NoDistance
        /\ (total_distance_m # NoDistance /\ total_distance_m' = NoDistance)
            => last'.op \in {"reset", "init"} ]_vars

\* a later frame of the episode at a location from where the distance to the
\* target waypoint is not the total distance
C15_Witness ==
    /\ returned /\ last.repeated /\ on_expected_lane
    /\ \A skew \in AllSkews :
          total_distance_m # first_total_distance(last.location, skew)

\* travelled distance over checkpoint distance of the frame in `last`, as the
\* fraction numerator / denominator
travelled_numerator == distance_traveled_m(total_distance_m, last.location) * checkpoints_number
travelled_denominator == checkpoints_distance_m
\* the checkpoints the frame in `last` counted (when not zeroed)
counted ==
    checkpoints_passed_number(total_distance_m, checkpoints_distance_m,
                              last.location)
scored == returned /\ on_expected_lane

\* C16 as stated: checkpoints_passed is the floor of distance_traveled over
\* checkpoint_distance for every distance travelled, negative ones included.
C16_CheckpointsAreFloor ==
    scored =>
      /\ counted * travelled_denominator <= travelled_numerator
      /\ travelled_numerator < (counted + 1) * travelled_denominator
      /\ ~passed_now => previous_progress = counted

\* C16, amended: checkpoints_passed is distance_traveled over
\* checkpoint_distance truncated towards zero: the floor for distances that
\* are not negative, the ceiling for negative ones.
C16_CheckpointsAreTruncated ==
    scored =>
      /\ travelled_numerator >= 0 =>
            /\ counted * travelled_denominator <= travelled_numerator
            /\ travelled_numerator < (counted + 1) * travelled_denominator
      /\ travelled_numerator < 0 =>
            /\ (counted - 1) * travelled_denominator < travelled_numerator
            /\ travelled_numerator <= counted * travelled_denominator
      /\ ~passed_now => previous_progress = counted

\* a frame with a negative travelled distance that is no whole number of
\* checkpoints
C16_Witness ==
    /\ scored /\ ~passed_now
    /\ travelled_numerator < 0
    /\ counted * travelled_denominator # travelled_numerator
    /\ previous_progress = counted

\* C17: after a reset that returns, whatever the steps and episodes before
\* it, the alignment counter is 0, the previous progress is 0, the total and
\* the checkpoint distance are unset and the previous advisory command is the
\* command of the maneuver reset selected.
C17_ResetLeavesFreshEpisode ==
    (last.op = "reset" /\ last.raised = "none") =>
      /\ target_alignment_counter = 0
      /\ previous_progress = 0
      /\ total_distance_m = NoDistance
      /\ checkpoints_distance_m = NoDistance
      /\ lane_change \in Range(lane_change_instants)
      /\ previous_chauffeur_command = lane_change.chauffeur_command

\* a reset that returned after an episode that had left a value of its own in
\* each of these attributes
C17_Witness ==
    /\ last.op = "reset" /\ last.raised = "none"
    /\ last.stale

\* C18: in a running episode, when the vehicle is on the target lane and
\* aligned in every frame from some frame on and no early stop occurs, step
\* reports success within 10 frames, whatever the frames before: there are
\* never more than 10 such frames in a row in an episode without a done frame.
C18_SuccessWithinTenFrames ==
    (returned /\ in_episode) =>
        last.target_run <= TARGET_LANE_ALIGNMENT_FRAMES

\* C19: a frame leaves the alignment counter incremented only if the
\* normalized heading difference is below 10 degrees in absolute value and the
\* crosstrack error is below 0.3; a frame whose heading deviates by 10 degrees
\* or more to either side leaves the counter at 0.
C19_CounterNeedsHeadingWithinTolerance ==
    queried =>
      /\ target_alignment_counter # 0 =>
            /\ Abs(last.yaw_error) < YAW_DEG_ERRORS_TOLERANCE
            /\ crosstrack_error(last.location) < CROSSTRACK_ERROR_TOLERANCE
      /\ Abs(last.yaw_error) >= YAW_DEG_ERRORS_TOLERANCE =>
            target_alignment_counter = 0

\* C20: a reset that raises has acquired nothing: no early-stop monitor and no
\* vehicle materializer it created is live afterwards.
C20_FailedResetAcquiresNothing ==
    (last.op = "reset" /\ last.raised # "none") =>
      /\ live_monitors = 0
      /\ live_vehicles = 0

====
